---- MODULE Spec2Model ----
(***************************************************************************)
(* Model of the two-pass assembler of src/src/main.rs.                     *)
(*                                                                         *)
(* Text is modelled as sequences of one-character strings: a source line,  *)
(* a token and an output word are all such sequences, so that tokenising,  *)
(* number parsing and binary formatting are computed character by          *)
(* character as the code computes them.                                    *)
(***************************************************************************)
EXTENDS Integers, Sequences, FiniteSets, TLC

VARIABLES
    content,                  \* the lines of the source file (content.lines())
    real_line_number,         \* 1-based source line counter; also the position of the line iterator
    machine_code_line_number, \* running word offset
    marks_to_machine_code,    \* Label Table: mark name -> address
    instructions,             \* Vec<Instructions> built by pass 1
    instr_idx,                \* number of instructions consumed by the pass-2 loop
    final_build,              \* Vec<String> built by pass 2
    output_file,              \* [created, text]: the destination file
    pc,                       \* position of main
    err                       \* the kind of panic that ended main, "none" otherwise

vars == <<content, real_line_number, machine_code_line_number, marks_to_machine_code,
          instructions, instr_idx, final_build, output_file, pc, err>>

-----------------------------------------------------------------------------
(* Program constants *)

NUMBER_BITS == 8

max_num_ram_cells == 2 ^ 8

-----------------------------------------------------------------------------
(* Mnemonics and register names as the code spells them *)

MARK == <<"M", "A", "R", "K">>
ADD  == <<"A", "D", "D">>
SHR  == <<"S", "H", "R">>
SHL  == <<"S", "H", "L">>
NOT  == <<"N", "O", "T">>
AND  == <<"A", "N", "D">>
OR   == <<"O", "R">>
XOR  == <<"X", "O", "R">>
ST   == <<"S", "T">>
LD   == <<"L", "D">>
DATA == <<"D", "A", "T", "A">>
JMPR == <<"J", "M", "P", "R">>
JMP  == <<"J", "M", "P">>
JIF  == <<"J", "I", "F">>
CLF  == <<"C", "L", "F">>
END  == <<"E", "N", "D">>

TwoRegMnemonics == {ADD, SHR, SHL, NOT, AND, OR, XOR, ST, LD}

Registers == {"R0", "R1", "R2", "R3"}

\* Register::binary
Register_binary(reg) ==
    CASE reg = "R0" -> <<"0", "0">>
      [] reg = "R1" -> <<"0", "1">>
      [] reg = "R2" -> <<"1", "0">>
      [] reg = "R3" -> <<"1", "1">>

\* Register::reg_from_instr; "panic" stands for the panic of its last arm
reg_from_instr(reg) ==
    CASE reg = <<"R", "0">> -> "R0"
      [] reg = <<"R", "1">> -> "R1"
      [] reg = <<"R", "2">> -> "R2"
      [] reg = <<"R", "3">> -> "R3"
      [] OTHER -> "panic"

-----------------------------------------------------------------------------
(* Text helpers of the standard library, computed as they compute *)

IsWhitespace(c) == c \in {" ", "\t"}

RECURSIVE split_from(_, _, _, _)
split_from(s, i, cur, acc) ==
    IF i > Len(s)
    THEN IF cur = <<>> THEN acc ELSE Append(acc, cur)
    ELSE IF IsWhitespace(s[i])
         THEN split_from(s, i + 1, <<>>, IF cur = <<>> THEN acc ELSE Append(acc, cur))
         ELSE split_from(s, i + 1, Append(cur, s[i]), acc)

\* str::split_whitespace, collected
split_whitespace(s) == split_from(s, 1, <<>>, <<>>)

DigitChars == <<"0", "1", "2", "3", "4", "5", "6", "7", "8", "9">>

IsDigit(c) == \E d \in 1..10 : DigitChars[d] = c

DigitValue(c) == (CHOOSE d \in 1..10 : DigitChars[d] = c) - 1

RECURSIVE parse_digits(_, _, _)
parse_digits(s, i, acc) ==
    IF i > Len(s) THEN acc
    ELSE IF IsDigit(s[i]) THEN parse_digits(s, i + 1, acc * 10 + DigitValue(s[i]))
    ELSE -1

\* str::parse::<usize>: an optional '+', then one or more decimal digits; -1
\* stands for Err.  (Tokens of the model are short, so no value overflows.)
parse_usize(s) ==
    LET digits == IF s[1] = "+" THEN Tail(s) ELSE s
    IN  IF digits = <<>> THEN -1 ELSE parse_digits(digits, 1, 0)

RECURSIVE to_binary(_)
to_binary(n) ==
    IF n < 2 THEN <<DigitChars[n + 1]>>
    ELSE Append(to_binary(n \div 2), DigitChars[(n % 2) + 1])

\* format!("{:0width$b}", n, width = width): the binary digits of n, padded
\* with zeros on the left up to width, never cut
format_binary(n, width) ==
    LET b == to_binary(n)
    IN  IF Len(b) >= width THEN b
        ELSE [i \in 1..(width - Len(b)) |-> "0"] \o b

-----------------------------------------------------------------------------
(* Instructions::binary *)

bool_char(b) == IF b THEN "1" ELSE "0"

TwoRegOpcode(op) ==
    CASE op = "Add"   -> <<"1", "0", "0", "0">>
      [] op = "Shr"   -> <<"1", "0", "0", "1">>
      [] op = "Shl"   -> <<"1", "0", "1", "0">>
      [] op = "Not"   -> <<"1", "0", "1", "1">>
      [] op = "And"   -> <<"1", "1", "0", "0">>
      [] op = "Or"    -> <<"1", "1", "0", "1">>
      [] op = "XOr"   -> <<"1", "1", "1", "0">>
      [] op = "Store" -> <<"0", "0", "0", "1">>
      [] op = "Load"  -> <<"0", "0", "0", "0">>

TwoRegOps == {"Add", "Shr", "Shl", "Not", "And", "Or", "XOr", "Store", "Load"}

\* a variant of the Data arm without the cut to NUMBER_BITS characters
DataBinaryUncut(reg, data) ==
    <<"0", "0", "1", "0", "0", "0">> \o Register_binary(reg) \o <<"\n">>
        \o format_binary(data, NUMBER_BITS)

\* The Data arm: the immediate formatted, then cut to its last NUMBER_BITS characters
DataBinary(reg, data) ==
    LET formatted   == format_binary(data, NUMBER_BITS)
        binary_data == SubSeq(formatted, Len(formatted) - NUMBER_BITS + 1, Len(formatted))
    IN  <<"0", "0", "1", "0", "0", "0">> \o Register_binary(reg) \o <<"\n">> \o binary_data

JumpAddressBinary == <<"0", "1", "0", "0", "0", "0", "0", "0">>

JumpIfBinary(carry, a_larger, equal, zero) ==
    <<"0", "1", "0", "1", bool_char(carry), bool_char(a_larger), bool_char(equal), bool_char(zero)>>

ClearFlagsBinary == <<"0", "1", "1", "0", "0", "0", "0", "0">>

EndBinary == <<"1", "1", "0", "0", "1", "1", "1", "1">>

Instructions_binary(instruction) ==
    CASE instruction.op \in TwoRegOps ->
            TwoRegOpcode(instruction.op) \o Register_binary(instruction.reg_a)
                                         \o Register_binary(instruction.reg_b)
      [] instruction.op = "Data" -> DataBinary(instruction.reg, instruction.data)
      [] instruction.op = "JumpRegister" ->
            <<"0", "0", "1", "1", "0", "0">> \o Register_binary(instruction.reg)
      [] instruction.op = "JumpAddress" -> JumpAddressBinary
      [] instruction.op = "JumpIf" ->
            JumpIfBinary(instruction.carry, instruction.a_larger, instruction.equal, instruction.zero)
      [] instruction.op = "ClearFlags" -> ClearFlagsBinary
      [] instruction.op = "End" -> EndBinary

-----------------------------------------------------------------------------
(* Pass 1: one action per kind of line; each is one iteration of the loop *)

LineAvailable == pc = "pass1" /\ real_line_number < Len(content)

\* the tokens of the line the iterator yields next
words == split_whitespace(content[real_line_number + 1])

\* a variant that takes only a lone "#" for a comment
starts_with_hash_exact(token) == token = <<"#">>

starts_with_hash(token) == token[1] = "#"

\* the line reaches the match on words[0]
ReachesMatch ==
    /\ LineAvailable
    /\ words # <<>>
    /\ ~starts_with_hash(words[1])
    /\ words[1] # MARK

Panic(kind) == pc' = "panicked" /\ err' = kind

\* the line is parsed: push the instruction, advance the word offset
Push(instruction, advance) ==
    /\ machine_code_line_number' = machine_code_line_number + advance
    /\ instructions' = Append(instructions, instruction)
    /\ UNCHANGED <<pc, err>>

PanicInPass1(kind) ==
    /\ Panic(kind)
    /\ UNCHANGED <<machine_code_line_number, instructions>>

SkipEmpty ==
    /\ LineAvailable
    /\ words = <<>>
    /\ real_line_number' = real_line_number + 1
    /\ UNCHANGED <<content, machine_code_line_number, marks_to_machine_code, instructions,
                   instr_idx, final_build, output_file, pc, err>>

SkipComment ==
    /\ LineAvailable
    /\ words # <<>>
    /\ starts_with_hash(words[1])
    /\ real_line_number' = real_line_number + 1
    /\ UNCHANGED <<content, machine_code_line_number, marks_to_machine_code, instructions,
                   instr_idx, final_build, output_file, pc, err>>

MarkLine ==
    /\ LineAvailable
    /\ words # <<>>
    /\ ~starts_with_hash(words[1])
    /\ words[1] = MARK
    /\ real_line_number' = real_line_number + 1
    /\ IF Len(words) # 2
       THEN Panic("MalformedLine") /\ UNCHANGED marks_to_machine_code
       ELSE /\ marks_to_machine_code' =
                  (words[2] :> (machine_code_line_number + 1)) @@ marks_to_machine_code
            /\ UNCHANGED <<pc, err>>
    /\ UNCHANGED <<content, machine_code_line_number, instructions, instr_idx, final_build,
                   output_file>>

TwoRegOp(mnemonic) ==
    CASE mnemonic = ADD -> "Add"
      [] mnemonic = SHR -> "Shr"
      [] mnemonic = SHL -> "Shl"
      [] mnemonic = NOT -> "Not"
      [] mnemonic = AND -> "And"
      [] mnemonic = OR  -> "Or"
      [] mnemonic = XOR -> "XOr"
      [] mnemonic = ST  -> "Store"
      [] mnemonic = LD  -> "Load"

TwoRegLine ==
    /\ ReachesMatch
    /\ words[1] \in TwoRegMnemonics
    /\ real_line_number' = real_line_number + 1
    /\ IF Len(words) # 3 THEN PanicInPass1("MalformedLine")
       ELSE IF reg_from_instr(words[2]) = "panic" \/ reg_from_instr(words[3]) = "panic"
            THEN PanicInPass1("InvalidRegister")
       ELSE Push([op |-> TwoRegOp(words[1]), reg_a |-> reg_from_instr(words[2]),
                  reg_b |-> reg_from_instr(words[3])], 1)
    /\ UNCHANGED <<content, marks_to_machine_code, instr_idx, final_build, output_file>>

DataLine ==
    /\ ReachesMatch
    /\ words[1] = DATA
    /\ real_line_number' = real_line_number + 1
    /\ IF Len(words) # 3 THEN PanicInPass1("MalformedLine")
       ELSE IF reg_from_instr(words[2]) = "panic" THEN PanicInPass1("InvalidRegister")
       ELSE IF parse_usize(words[3]) = -1 THEN PanicInPass1("InvalidImmediate")
       ELSE Push([op |-> "Data", reg |-> reg_from_instr(words[2]),
                  data |-> parse_usize(words[3])], 2)
    /\ UNCHANGED <<content, marks_to_machine_code, instr_idx, final_build, output_file>>

JmprLine ==
    /\ ReachesMatch
    /\ words[1] = JMPR
    /\ real_line_number' = real_line_number + 1
    /\ IF Len(words) # 2 THEN PanicInPass1("MalformedLine")
       ELSE IF reg_from_instr(words[2]) = "panic" THEN PanicInPass1("InvalidRegister")
       ELSE Push([op |-> "JumpRegister", reg |-> reg_from_instr(words[2])], 1)
    /\ UNCHANGED <<content, marks_to_machine_code, instr_idx, final_build, output_file>>

\* a variant of the JMP arm that advances the word offset by one
JmpLineAdvanceOne ==
    /\ ReachesMatch
    /\ words[1] = JMP
    /\ real_line_number' = real_line_number + 1
    /\ IF Len(words) # 2 THEN PanicInPass1("MalformedLine")
       ELSE Push([op |-> "JumpAddress", mark |-> words[2]], 1)
    /\ UNCHANGED <<content, marks_to_machine_code, instr_idx, final_build, output_file>>

JmpLine ==
    /\ ReachesMatch
    /\ words[1] = JMP
    /\ real_line_number' = real_line_number + 1
    /\ IF Len(words) # 2 THEN PanicInPass1("MalformedLine")
       ELSE Push([op |-> "JumpAddress", mark |-> words[2]], 2)
    /\ UNCHANGED <<content, marks_to_machine_code, instr_idx, final_build, output_file>>

FlagChars == {"C", "A", "E", "Z"}

HasChar(token, c) == \E i \in 1..Len(token) : token[i] = c

\* the label of a JumpIf is bound from words[1] of the code, the flag token
JifMark(w) == w[2]

JifLine ==
    /\ ReachesMatch
    /\ words[1] = JIF
    /\ real_line_number' = real_line_number + 1
    /\ IF Len(words) # 3 THEN PanicInPass1("MalformedLine")
       ELSE IF \E i \in 1..Len(words[2]) : words[2][i] \notin FlagChars
            THEN PanicInPass1("InvalidConditionFlag")
       ELSE Push([op |-> "JumpIf",
                  carry |-> HasChar(words[2], "C"), a_larger |-> HasChar(words[2], "A"),
                  equal |-> HasChar(words[2], "E"), zero |-> HasChar(words[2], "Z"),
                  mark |-> JifMark(words)], 2)
    /\ UNCHANGED <<content, marks_to_machine_code, instr_idx, final_build, output_file>>

\* the CLF and END arms look at no token but the first
ClfLine ==
    /\ ReachesMatch
    /\ words[1] = CLF
    /\ real_line_number' = real_line_number + 1
    /\ Push([op |-> "ClearFlags"], 1)
    /\ UNCHANGED <<content, marks_to_machine_code, instr_idx, final_build, output_file>>

EndLine ==
    /\ ReachesMatch
    /\ words[1] = END
    /\ real_line_number' = real_line_number + 1
    /\ Push([op |-> "End"], 1)
    /\ UNCHANGED <<content, marks_to_machine_code, instr_idx, final_build, output_file>>

UnknownLine ==
    /\ ReachesMatch
    /\ words[1] \notin TwoRegMnemonics \cup {DATA, JMPR, JMP, JIF, CLF, END}
    /\ real_line_number' = real_line_number + 1
    /\ PanicInPass1("UnknownInstruction")
    /\ UNCHANGED <<content, marks_to_machine_code, instr_idx, final_build, output_file>>

\* the line iterator is exhausted: pass 2 starts with an empty final_build
FinishPass1 ==
    /\ pc = "pass1"
    /\ real_line_number = Len(content)
    /\ pc' = "pass2"
    /\ UNCHANGED <<content, real_line_number, machine_code_line_number, marks_to_machine_code,
                   instructions, instr_idx, final_build, output_file, err>>

-----------------------------------------------------------------------------
(* Pass 2 *)

IsJump(instruction) == instruction.op \in {"JumpAddress", "JumpIf"}

\* what one iteration of the pass-2 loop pushes for an instruction whose label,
\* if it has one, is in the table
EmitEntries(instruction, marks) ==
    IF IsJump(instruction)
    THEN <<Instructions_binary(instruction), format_binary(marks[instruction.mark], NUMBER_BITS)>>
    ELSE <<Instructions_binary(instruction)>>

EmitInstruction ==
    /\ pc = "pass2"
    /\ instr_idx < Len(instructions)
    /\ instr_idx' = instr_idx + 1
    /\ LET instruction == instructions[instr_idx + 1]
       IN  IF IsJump(instruction) /\ instruction.mark \notin DOMAIN marks_to_machine_code
           THEN Panic("UndefinedLabel") /\ UNCHANGED final_build
           ELSE /\ final_build' = final_build \o EmitEntries(instruction, marks_to_machine_code)
                /\ UNCHANGED <<pc, err>>
    /\ UNCHANGED <<content, real_line_number, machine_code_line_number, marks_to_machine_code,
                   instructions, output_file>>

\* a variant that pushes no terminator after a source that ends with END
AppendEndUnlessEnded ==
    /\ pc = "pass2"
    /\ instr_idx = Len(instructions)
    /\ final_build' =
           IF instructions # <<>> /\ instructions[Len(instructions)].op = "End"
           THEN final_build
           ELSE Append(final_build, Instructions_binary([op |-> "End"]))
    /\ pc' = "bounds_check"
    /\ UNCHANGED <<content, real_line_number, machine_code_line_number, marks_to_machine_code,
                   instructions, instr_idx, output_file, err>>

\* the loop is over: the implicit terminator is pushed
AppendEnd ==
    /\ pc = "pass2"
    /\ instr_idx = Len(instructions)
    /\ final_build' = Append(final_build, Instructions_binary([op |-> "End"]))
    /\ pc' = "bounds_check"
    /\ UNCHANGED <<content, real_line_number, machine_code_line_number, marks_to_machine_code,
                   instructions, instr_idx, output_file, err>>

\* a variant that rejects a program of exactly max_num_ram_cells words
BoundsCheckOffByOne ==
    /\ pc = "bounds_check"
    /\ IF machine_code_line_number >= max_num_ram_cells
       THEN Panic("ProgramTooLarge")
       ELSE pc' = "write" /\ UNCHANGED err
    /\ UNCHANGED <<content, real_line_number, machine_code_line_number, marks_to_machine_code,
                   instructions, instr_idx, final_build, output_file>>

\* a variant in which the output file is created ahead of the check
BoundsCheckAfterCreate ==
    /\ pc = "bounds_check"
    /\ output_file' = [created |-> TRUE, text |-> <<>>]
    /\ IF machine_code_line_number > max_num_ram_cells
       THEN Panic("ProgramTooLarge")
       ELSE pc' = "write" /\ UNCHANGED err
    /\ UNCHANGED <<content, real_line_number, machine_code_line_number, marks_to_machine_code,
                   instructions, instr_idx, final_build>>

BoundsCheck ==
    /\ pc = "bounds_check"
    /\ IF machine_code_line_number > max_num_ram_cells
       THEN Panic("ProgramTooLarge")
       ELSE pc' = "write" /\ UNCHANGED err
    /\ UNCHANGED <<content, real_line_number, machine_code_line_number, marks_to_machine_code,
                   instructions, instr_idx, final_build, output_file>>

RECURSIVE writeln_all(_, _)
writeln_all(build, i) ==
    IF i > Len(build) THEN <<>>
    ELSE build[i] \o <<"\n">> \o writeln_all(build, i + 1)

\* File::create, then writeln! of every entry of final_build
WriteOutput ==
    /\ pc = "write"
    /\ output_file' = [created |-> TRUE, text |-> writeln_all(final_build, 1)]
    /\ pc' = "done"
    /\ UNCHANGED <<content, real_line_number, machine_code_line_number, marks_to_machine_code,
                   instructions, instr_idx, final_build, err>>

-----------------------------------------------------------------------------
(* Source files the model assembles *)

MaxLines == 3
MaxOperands == 3
MaxData == 300
MaxFlagLen == 2
PadSlack == 3
MaxTail == 1

RECURSIVE join(_)
\* the tokens of a line, one space between them
join(tokens) ==
    IF tokens = <<>> THEN <<>>
    ELSE IF Len(tokens) = 1 THEN tokens[1]
    ELSE tokens[1] \o <<" ">> \o join(Tail(tokens))

RECURSIVE decimal(_)
decimal(n) ==
    IF n < 10 THEN <<DigitChars[n + 1]>>
    ELSE Append(decimal(n \div 10), DigitChars[(n % 10) + 1])

SeqsUpTo(S, n) == UNION {[1..k -> S] : k \in 0..n}

RegTokens == {<<"R", "0">>, <<"R", "1">>, <<"R", "2">>, <<"R", "3">>}

LabelA == <<"a">>
LabelAE == <<"A", "E">>

\* short programs over a small set of lines, blank and comment lines among them
Lines ==
    { <<>>,
      <<" ", "\t">>,
      join(<<<<"#">>, LabelA>>),
      <<" ">> \o join(<<MARK, LabelA>>),
      join(<<MARK, LabelAE>>),
      join(<<JMP, LabelA>>),
      join(<<JIF, LabelAE, LabelA>>),
      join(<<CLF>>),
      join(<<END>>),
      join(<<DATA, <<"R", "2">>, <<"5">>>>),
      join(<<ADD, <<"R", "0">>, <<"R", "1">>>>) }

ShortPrograms == SeqsUpTo(Lines, MaxLines)

\* one-line programs: every first token with every short list of operands
FirstTokens ==
    TwoRegMnemonics \cup {MARK, DATA, JMPR, JMP, JIF, CLF, END, <<"F", "O", "O">>, <<"#", "x">>}

OperandTokens == {<<"R", "0">>, <<"R", "3">>, <<"R", "4">>, <<"5">>, LabelA}

OneLinePrograms ==
    { <<join(<<first>> \o operands)>> :
        first \in FirstTokens, operands \in SeqsUpTo(OperandTokens, MaxOperands) }

\* every register in every place of the register instructions
RegisterPrograms ==
    { <<join(<<first, reg_a, reg_b>>)>> :
        first \in TwoRegMnemonics, reg_a \in RegTokens, reg_b \in RegTokens }
    \cup { <<join(<<JMPR, reg>>)>> : reg \in RegTokens }

\* DATA with every register and a range of immediates, and some odd number tokens
OddNumbers == {<<"+", "7">>, <<"+">>, <<"-", "1">>, <<"0", "0", "9">>, <<"5", "x">>}

DataPrograms ==
    { <<join(<<DATA, reg, number>>)>> :
        reg \in RegTokens, number \in {decimal(v) : v \in 0..MaxData} \cup OddNumbers }

\* JIF with every flag token up to MaxFlagLen, after a MARK of the flag token's name
FlagTokens == UNION {[1..k -> FlagChars \cup {"X"}] : k \in 1..MaxFlagLen}

FlagPrograms ==
    { <<join(<<MARK, flags>>), join(<<JIF, flags, LabelA>>), join(<<MARK, LabelA>>)>> :
        flags \in FlagTokens }

\* programs that fill the memory: a head, a run of CLF lines, a short tail
BigLines == {join(<<JMP, LabelA>>), join(<<MARK, LabelA>>), join(<<CLF>>)}

BigHeads == {<<>>, <<join(<<JMP, LabelA>>)>>}

PadCounts == (max_num_ram_cells - PadSlack)..(max_num_ram_cells + 1)

BigPrograms ==
    { head \o [i \in 1..k |-> join(<<CLF>>)] \o tail :
        head \in BigHeads, k \in PadCounts, tail \in SeqsUpTo(BigLines, MaxTail) }

Programs ==
    ShortPrograms \cup OneLinePrograms \cup RegisterPrograms \cup DataPrograms
        \cup FlagPrograms \cup BigPrograms

\* the state of main once the file is read and its locals are initialised
Init ==
    /\ content \in Programs
    /\ real_line_number = 0
    /\ machine_code_line_number = 0
    /\ marks_to_machine_code = << >>
    /\ instructions = << >>
    /\ instr_idx = 0
    /\ final_build = << >>
    /\ output_file = [created |-> FALSE, text |-> << >>]
    /\ pc = "pass1"
    /\ err = "none"


-----------------------------------------------------------------------------
Next ==
    \/ SkipEmpty
    \/ SkipComment
    \/ MarkLine
    \/ TwoRegLine
    \/ DataLine
    \/ JmprLine
    \/ JmpLine
    \/ JifLine
    \/ ClfLine
    \/ EndLine
    \/ UnknownLine
    \/ FinishPass1
    \/ EmitInstruction
    \/ AppendEnd
    \/ BoundsCheck
    \/ WriteOutput

Spec == Init /\ [][Next]_vars

-----------------------------------------------------------------------------
(* Vocabulary of the properties *)

Tokens(i) == split_whitespace(content[i])

IsBlankOrComment(t) == t = <<>> \/ t[1][1] = "#"

IsMarkOf(t, label) == t = <<MARK, label>>

\* the number of words of a line by the instruction table: two for DATA, JMP
\* and JIF, one for the other instructions, none for blank, comment and MARK lines
TableWords(t) ==
    IF IsBlankOrComment(t) \/ t[1] = MARK THEN 0
    ELSE IF t[1] \in {DATA, JMP, JIF} THEN 2
    ELSE 1

\* the word offset in front of line j
RECURSIVE WordsBefore(_)
WordsBefore(j) == IF j <= 1 THEN 0 ELSE WordsBefore(j - 1) + TableWords(Tokens(j - 1))

\* the 8-bit binary of n, most significant bit first
Bits8(n) == [k \in 1..8 |-> IF (n \div (2 ^ (8 - k))) % 2 = 1 THEN "1" ELSE "0"]

NextNewline(text, start) ==
    CHOOSE j \in start..Len(text) :
        text[j] = "\n" /\ \A k \in start..(j - 1) : text[k] # "\n"

RECURSIVE lines_from(_, _)
lines_from(text, start) ==
    IF start > Len(text) THEN <<>>
    ELSE LET stop == NextNewline(text, start)
         IN  <<SubSeq(text, start, stop - 1)>> \o lines_from(text, stop + 1)

\* the words of the listing: the lines of the output file
OutWords == lines_from(output_file.text, 1)

Assembled == pc = "done"

HaltWord == <<"1", "1", "0", "0", "1", "1", "1", "1">>

JmpWord == <<"0", "1", "0", "0", "0", "0", "0", "0">>

-----------------------------------------------------------------------------
(* C1 *)

\* C1: in a program that assembles, for every label defined by exactly one
\* MARK line, with N the word offset in front of that line, every JMP to the
\* label, before or after the MARK line, emits "01000000" and then the 8-bit
\* binary of N + 1.
C1_JmpEmitsMarkAddress ==
    Assembled =>
        LET out == OutWords
        IN  \A i \in 1..Len(content) :
                LET t == Tokens(i)
                IN  (/\ Len(t) = 2
                     /\ t[1] = MARK
                     /\ \A i2 \in 1..Len(content) : IsMarkOf(Tokens(i2), t[2]) => i2 = i)
                    => \A j \in 1..Len(content) :
                           Tokens(j) = <<JMP, t[2]>> =>
                               /\ out[WordsBefore(j) + 1] = JmpWord
                               /\ out[WordsBefore(j) + 2] = Bits8(WordsBefore(i) + 1)

-----------------------------------------------------------------------------
(* C2 *)

FlagBit(token, c) == IF \E i \in 1..Len(token) : token[i] = c THEN "1" ELSE "0"

\* C2: in a program that assembles, every line JIF <flags> <label> emits
\* "0101" with the carry, a_larger, equal and zero bits of the second token,
\* and then the 8-bit binary of the address the Label Table holds for the
\* third token.
C2_JifJumpsToThirdToken ==
    Assembled =>
        LET out == OutWords
        IN  \A j \in 1..Len(content) :
                LET t == Tokens(j)
                IN  (Len(t) = 3 /\ t[1] = JIF) =>
                        /\ out[WordsBefore(j) + 1] =
                               <<"0", "1", "0", "1", FlagBit(t[2], "C"), FlagBit(t[2], "A"),
                                 FlagBit(t[2], "E"), FlagBit(t[2], "Z")>>
                        /\ t[3] \in DOMAIN marks_to_machine_code =>
                               out[WordsBefore(j) + 2] = Bits8(marks_to_machine_code[t[3]])

-----------------------------------------------------------------------------
(* C3 *)

IsWord8(w) == Len(w) = 8 /\ \A k \in 1..Len(w) : w[k] \in {"0", "1"}

\* C3: every word of the listing of a program that assembles is exactly 8
\* characters, each '0' or '1', the jump-target words included.
C3_EveryWordIs8Bits ==
    Assembled => LET out == OutWords IN \A k \in 1..Len(out) : IsWord8(out[k])

-----------------------------------------------------------------------------
(* C4 *)

\* C4: an otherwise valid program with a word offset of at most 256 after
\* pass 1 assembles and its listing is written; with 257 or more it fails
\* with ProgramTooLarge and nothing is written.
C4_BoundIs256 ==
    /\ pc \in {"write", "done"} => machine_code_line_number <= 256
    /\ pc \notin {"done", "panicked"} => ENABLED Next
    /\ Assembled => output_file.created /\ output_file.text # <<>>
    /\ err = "ProgramTooLarge" =>
           /\ pc = "panicked"
           /\ machine_code_line_number >= 257
           /\ ~output_file.created /\ output_file.text = <<>>

C4_Witness == Assembled /\ machine_code_line_number = 256

-----------------------------------------------------------------------------
(* C5 *)

\* C5: the listing of a program that assembles is the words of the source's
\* instructions and then exactly one "11001111": it ends with two of them
\* when the source's last instruction is END, and is that single word when
\* the source has no instruction.
C5_OneEndAppended ==
    Assembled =>
        LET out == OutWords
        IN  /\ Len(out) = WordsBefore(Len(content) + 1) + 1
            /\ out[Len(out)] = HaltWord
            /\ (instructions # <<>> /\ instructions[Len(instructions)].op = "End") =>
                   out[Len(out) - 1] = HaltWord
            /\ instructions = <<>> => out = <<HaltWord>>

C5_Witness ==
    /\ Assembled
    /\ Len(instructions) >= 2
    /\ instructions[Len(instructions)].op = "End"

-----------------------------------------------------------------------------
(* C6 *)

RequiredTokens(first) ==
    IF first \in {MARK, JMPR, JMP} THEN 2
    ELSE IF first \in {CLF, END} THEN 1
    ELSE 3

\* C6: the line last read, when it starts with a mnemonic or MARK and has
\* another number of tokens than the mnemonic requires, has ended the
\* assembly with MalformedLine.
C6_WrongTokenCountFails ==
    real_line_number >= 1 =>
        LET t == Tokens(real_line_number)
        IN  (/\ ~IsBlankOrComment(t)
             /\ t[1] \in TwoRegMnemonics \cup {MARK, DATA, JMPR, JMP, JIF, CLF, END}
             /\ Len(t) # RequiredTokens(t[1]))
            => pc = "panicked" /\ err = "MalformedLine"

-----------------------------------------------------------------------------
(* C7 *)

\* C7: once the assembly has failed nothing is ever written; the listing is
\* written only after both passes and the bounds check are through without
\* error; and main never goes back to pass 1.
C7_NoOutputOnFailure ==
    /\ [](pc = "panicked" => err # "none" /\ ~output_file.created /\ output_file.text = <<>>)
    /\ [](err # "none" => pc = "panicked")
    /\ []((pc \in {"write", "done"} \/ output_file.created) =>
              /\ err = "none"
              /\ real_line_number = Len(content)
              /\ instr_idx = Len(instructions)
              /\ machine_code_line_number <= max_num_ram_cells)
    /\ [][pc # "pass1" => pc' # "pass1"]_vars
    /\ [][pc = "panicked" => UNCHANGED vars]_vars

C7_Witness ==
    /\ pc = "panicked"
    /\ err = "UndefinedLabel"
    /\ final_build # <<>>
    /\ ~output_file.created

-----------------------------------------------------------------------------
(* C8 *)

TableWordsOfOp(op) == IF op \in {"Data", "JumpAddress", "JumpIf"} THEN 2 ELSE 1

RECURSIVE WordsBeforeInstr(_)
WordsBeforeInstr(k) ==
    IF k <= 1 THEN 0 ELSE WordsBeforeInstr(k - 1) + TableWordsOfOp(instructions[k - 1].op)

RegCode(token) ==
    CASE token = <<"R", "0">> -> <<"0", "0">>
      [] token = <<"R", "1">> -> <<"0", "1">>
      [] token = <<"R", "2">> -> <<"1", "0">>
      [] token = <<"R", "3">> -> <<"1", "1">>

IsCanonicalDecimal(token) ==
    /\ \A k \in 1..Len(token) : IsDigit(token[k])
    /\ token = <<"0">> \/ token[1] # "0"

\* C8: in a program that assembles, every line DATA r v emits "001000" with
\* the 2-bit code of r and then the 8-bit binary of v mod 256, v being the
\* number the third token spells.
C8_DataEmitsLow8Bits ==
    Assembled =>
        LET out == OutWords
        IN  \A j \in 1..Len(content) :
                LET t == Tokens(j)
                IN  (Len(t) = 3 /\ t[1] = DATA) =>
                        \E v \in 0..(MaxData + 1) :
                            /\ IsCanonicalDecimal(t[3]) => decimal(v) = t[3]
                            /\ out[WordsBefore(j) + 1] = <<"0", "0", "1", "0", "0", "0">> \o RegCode(t[2])
                            /\ out[WordsBefore(j) + 2] = Bits8(v % 256)
                            /\ \E k \in 1..Len(instructions) :
                                   /\ WordsBeforeInstr(k) = WordsBefore(j)
                                   /\ instructions[k].op = "Data"
                                   /\ instructions[k].data = v

C8_Witness ==
    /\ Assembled
    /\ Len(content) = 1
    /\ Len(instructions) = 1
    /\ instructions[1].op = "Data"
    /\ instructions[1].data >= 256
    /\ instructions[1].reg = "R2"

-----------------------------------------------------------------------------
(* C9 *)

\* C9: reading a blank line or a comment line advances the source-line
\* counter by one and leaves the word offset, the Label Table, the
\* instruction list and everything else as they were.
C9_BlankAndCommentLinesChangeNothing ==
    [][(LineAvailable /\ IsBlankOrComment(Tokens(real_line_number + 1))) =>
           /\ real_line_number' = real_line_number + 1
           /\ UNCHANGED <<content, machine_code_line_number, marks_to_machine_code,
                          instructions, instr_idx, final_build, output_file, pc, err>>]_vars

C9_Witness ==
    /\ pc = "pass1"
    /\ real_line_number >= 2
    /\ IsBlankOrComment(Tokens(real_line_number))
    /\ Tokens(real_line_number) # <<>>
    /\ instructions # <<>>
    /\ marks_to_machine_code # <<>>

-----------------------------------------------------------------------------
(* C10 *)

\* the words of one entry of final_build
EntryWords(entry) == lines_from(entry \o <<"\n">>, 1)

\* the number of words the pass-2 loop emits for an instruction
EmittedWords(instruction) ==
    LET entries == EmitEntries(instruction,
                               IF IsJump(instruction) THEN (instruction.mark :> 0) ELSE <<>>)
    IN  Len(EntryWords(entries[1])) + (Len(entries) - 1)

RECURSIVE EmittedBefore(_)
EmittedBefore(k) ==
    IF k <= 1 THEN 0 ELSE EmittedBefore(k - 1) + EmittedWords(instructions[k - 1])

InstructionLinesBefore(i) == Cardinality({j \in 1..(i - 1) : TableWords(Tokens(j)) > 0})

LastMarkLine(label) ==
    CHOOSE i \in 1..Len(content) :
        /\ IsMarkOf(Tokens(i), label)
        /\ \A i2 \in (i + 1)..Len(content) : ~IsMarkOf(Tokens(i2), label)

\* C10: whenever pass 1 appends an instruction it advances the word offset
\* by the number of words pass 2 emits for that instruction; so the listing
\* of a program that assembles has word offset + 1 words, and the address of
\* every mark is the position in the listing of the first word of the
\* instruction that follows its MARK line, or of the appended End word.
C10_PassesAgreeOnWordCounts ==
    /\ [][instructions' # instructions =>
              /\ Len(instructions') = Len(instructions) + 1
              /\ machine_code_line_number' - machine_code_line_number
                     = EmittedWords(instructions'[Len(instructions')])]_vars
    /\ [](Assembled =>
              LET out == OutWords
              IN  /\ Len(out) = machine_code_line_number + 1
                  /\ \A label \in DOMAIN marks_to_machine_code :
                         LET k   == InstructionLinesBefore(LastMarkLine(label)) + 1
                             pos == EmittedBefore(k) + 1
                         IN  /\ marks_to_machine_code[label] = pos
                             /\ pos <= Len(out)
                             /\ out[pos] = IF k <= Len(instructions)
                                           THEN EntryWords(Instructions_binary(instructions[k]))[1]
                                           ELSE HaltWord
                             /\ EmittedBefore(Len(instructions) + 1) + 1 = Len(out))

C10_Witness ==
    /\ Assembled
    /\ \E label \in DOMAIN marks_to_machine_code :
           /\ marks_to_machine_code[label] >= 3
           /\ marks_to_machine_code[label] < Len(final_build)
    /\ \E k \in 1..Len(instructions) : instructions[k].op = "Data"

====
